---- MODULE Spec2Model ----
(***************************************************************************)
(* Model of src/index.js: a wrapper around the host's message-box and      *)
(* open-file dialogs.  Each call of a public operation is followed from    *)
(* the call, through the host's settlement of the promise, the promise     *)
(* reactions (.then / .catch) and the fs.access callback, to the caller's  *)
(* completion callback.                                                    *)
(***************************************************************************)
EXTENDS Integers, Sequences, FiniteSets, TLC

(***************************************************************************)
(* Bounds and value sets                                                   *)
(***************************************************************************)

\* longest path list the host picker returns
MaxPaths == 2

\* the calls that may be outstanding at the same time
Calls == {"c1", "c2"}

\* JavaScript undefined (an omitted argument) and null
Undefined == "undefined"
Null == "null"

\* errors the host dialog services reject with
HostErrors == {"EHOSTA", "EHOSTB"}

\* errors fs.access reports
ProbeErrors == {"ENOENT", "EACCES"}

\* what the caller's callback does when invoked: returns, or throws this value
NoThrow == "returns"
CallbackErrors == {"ECALLBACK"}
CallbackOutcomes == {NoThrow} \cup CallbackErrors

\* a text (title, message) is the sequence of its pieces, so that "contains"
\* can be asked of it; an omitted text argument is the sequence of no piece
\* (the empty string would be <<"">>)
Omitted == <<>>
Contains(text, piece) == \E k \in 1..Len(text) : text[k] = piece

\* titles, messages and folders a caller passes (or omits)
Titles == {Omitted, <<"Update">>}
Messages == {Omitted, <<"A new version is available">>}
Folders == {Undefined, "/home/u"}

\* dialog titles a caller of openFile passes: the title is left to its default
DialogTitles == {Omitted}

\* paths as the sequence of segments between separators; a leading ""
\* segment is the root of an absolute path ("/d/f.txt" is <<"", "d", "f.txt">>)
RawPaths ==
    { <<".", "a", "..", "b.txt">>,
      <<"", "d", "..", "..", "g.txt">> }

RECURSIVE SeqsUpTo(_, _)
SeqsUpTo(S, n) ==
    IF n = 0 THEN { <<>> }
    ELSE LET shorter == SeqsUpTo(S, n - 1)
         IN shorter \cup { Append(s, x) : s \in { t \in shorter : Len(t) = n - 1 }, x \in S }

\* the path lists the picker can resolve with
PathLists == SeqsUpTo(RawPaths, MaxPaths)

(***************************************************************************)
(* Values handed to callbacks                                              *)
(***************************************************************************)

NoPath == <<>>

\* a callback's second argument: undefined, a message-box result or a path
NoResult == [kind |-> "undefined", response |-> 0 - 1, path |-> NoPath]
BoxResult(i) == [kind |-> "box", response |-> i, path |-> NoPath]
PathResult(p) == [kind |-> "path", response |-> 0 - 1, path |-> p]

\* what a handler does, in order: requests to the application handle and
\* invocations of the caller's callback
AppEffect(name) == [ev |-> name, err |-> Null, res |-> NoResult]
CallbackEffect(error, result) == [ev |-> "cb", err |-> error, res |-> result]

(***************************************************************************)
(* Pure parts of the code                                                  *)
(***************************************************************************)

appProductName == <<"App">>

\* path.normalize on the segments: "." and empty segments are dropped, ".."
\* removes the segment before it, is dropped at the root of an absolute path
\* and is kept at the front of a relative one
RECURSIVE normalizeString(_, _, _)
normalizeString(segs, res, allowAboveRoot) ==
    IF segs = <<>> THEN res
    ELSE LET s == Head(segs)
             rest == Tail(segs)
         IN IF s = "." \/ s = ""
            THEN normalizeString(rest, res, allowAboveRoot)
            ELSE IF s = ".."
            THEN IF res # <<>> /\ res[Len(res)] # ".."
                 THEN normalizeString(rest, SubSeq(res, 1, Len(res) - 1), allowAboveRoot)
                 ELSE IF allowAboveRoot
                      THEN normalizeString(rest, Append(res, ".."), allowAboveRoot)
                      ELSE normalizeString(rest, res, allowAboveRoot)
            ELSE normalizeString(rest, Append(res, s), allowAboveRoot)

normalize(p) ==
    IF p = <<>> THEN <<".">>
    ELSE LET isAbsolute == p[1] = ""
             body == normalizeString(p, <<>>, ~isAbsolute)
         IN IF isAbsolute THEN <<"">> \o body
            ELSE IF body = <<>> THEN <<".">> ELSE body

\* variant of MessageBoxOptions: the last button is the cancel target
MessageBoxOptionsCancelLast(title, message, buttonList, type) ==
    LET t == IF title = Omitted THEN appProductName ELSE title
        m == IF message = Omitted THEN t ELSE message
    IN [type |-> type, title |-> t, message |-> t, detail |-> m,
        buttons |-> buttonList, cancelId |-> Len(buttonList) - 1, defaultId |-> 0]

\* the options object createMessageDialog hands to dialog.showMessageBox,
\* after its parameter defaults
MessageBoxOptions(title, message, buttonList, type) ==
    LET t == IF title = Omitted THEN appProductName ELSE title
        m == IF message = Omitted THEN t ELSE message
    IN [type |-> type, title |-> t, message |-> t, detail |-> m,
        buttons |-> buttonList, cancelId |-> 0, defaultId |-> 0]


\* variant of ShowErrorPrelude: focus is requested before the bounce
ShowErrorPreludeFocusFirst(mac) ==
    <<AppEffect("focus")>> \o (IF mac THEN <<AppEffect("bounce")>> ELSE <<>>)

\* showError, before the dialog is requested: the dock bounce on macOS, then
\* the focus request
ShowErrorPrelude(mac) ==
    (IF mac THEN <<AppEffect("bounce")>> ELSE <<>>) \o <<AppEffect("focus")>>

\* showConfirmation, before the dialog is requested
ShowConfirmationPrelude == <<AppEffect("focus")>>

\* variant of ShowErrorCallback: Restart quits before it relaunches
ShowErrorCallbackQuitFirst(error, result) ==
    IF error # Null
    THEN <<CallbackEffect(error, NoResult)>>
    ELSE (IF result.response = 1
          THEN <<AppEffect("quit"), AppEffect("relaunch")>>
          ELSE IF result.response = 2
          THEN <<AppEffect("quit")>>
          ELSE <<>>)
         \o <<CallbackEffect(Null, result)>>

\* variant of ShowErrorCallback: a failed dialog request quits the application
ShowErrorCallbackQuitOnError(error, result) ==
    IF error # Null
    THEN <<AppEffect("quit"), CallbackEffect(error, NoResult)>>
    ELSE (IF result.response = 1
          THEN <<AppEffect("relaunch"), AppEffect("quit")>>
          ELSE IF result.response = 2
          THEN <<AppEffect("quit")>>
          ELSE <<>>)
         \o <<CallbackEffect(Null, result)>>

\* variant of ShowErrorCallback: Restart returns without calling back
ShowErrorCallbackSilentRestart(error, result) ==
    IF error # Null
    THEN <<CallbackEffect(error, NoResult)>>
    ELSE IF result.response = 1
    THEN <<AppEffect("relaunch"), AppEffect("quit")>>
    ELSE (IF result.response = 2 THEN <<AppEffect("quit")>> ELSE <<>>)
         \o <<CallbackEffect(Null, result)>>

\* the callback showError hands to createMessageDialog
ShowErrorCallback(error, result) ==
    IF error # Null
    THEN <<CallbackEffect(error, NoResult)>>
    ELSE (IF result.response = 1
          THEN <<AppEffect("relaunch"), AppEffect("quit")>>
          ELSE IF result.response = 2
          THEN <<AppEffect("quit")>>
          ELSE <<>>)
         \o <<CallbackEffect(Null, result)>>

\* the callback openFile hands to showWarning: it takes no argument and
\* delivers the existence probe's error
WarningCallback(error, probeError) == <<CallbackEffect(probeError, NoResult)>>

\* the callback createMessageDialog was given by the operation opName
MessageDialogCallback(opName, error, result, probeError) ==
    IF opName = "showError" THEN ShowErrorCallback(error, result)
    ELSE IF opName = "openFile" THEN WarningCallback(error, probeError)
    ELSE <<CallbackEffect(error, result)>>

\* createMessageDialog's .then handler: the arguments it calls back with
MessageBoxThen(result) == [err |-> Null, res |-> result]

\* variant of MessageBoxCatch: the host's error is replaced by a new one
MessageBoxCatchWrapped(error) == [err |-> "dialog failed", res |-> NoResult]

\* createMessageDialog's .catch handler: the arguments it calls back with
MessageBoxCatch(error) == [err |-> error, res |-> NoResult]

\* the default of openFile's initialFolder, app.getPath(name): no binding
\* called name exists in the module, so evaluating it throws
InitialFolderDefault == [throws |-> TRUE, error |-> "ReferenceError", value |-> Undefined]

\* the options object openFile hands to dialog.showOpenDialog
OpenDialogOptions(dialogTitle, fileExtensionList, initialFolder) ==
    [title |-> IF dialogTitle = Omitted THEN appProductName ELSE dialogTitle,
     properties |-> <<"openFile", "showHiddenFiles", "treatPackageAsDirectory">>,
     defaultPath |-> initialFolder,
     filters |-> IF fileExtensionList = <<>> THEN <<"*">> ELSE fileExtensionList]

EmptySelectionError == "file selection empty"

\* variant of OpenFileThen: no test for an empty selection, the probe runs on
\* the path of no selection
OpenFileThenNoEmptyTest(filePathList) ==
    IF Len(filePathList) = 0
    THEN [probe |-> TRUE, filePath |-> normalize(NoPath), effects |-> <<>>]
    ELSE [probe |-> TRUE, filePath |-> normalize(filePathList[1]), effects |-> <<>>]

\* variant of OpenFileThen: the first path is probed as the picker returned it
OpenFileThenRawPath(filePathList) ==
    IF Len(filePathList) = 0
    THEN [probe |-> FALSE, filePath |-> NoPath,
          effects |-> <<CallbackEffect(EmptySelectionError, NoResult)>>]
    ELSE [probe |-> TRUE, filePath |-> filePathList[1], effects |-> <<>>]

\* openFile's .then handler up to the existence probe: an empty list is
\* answered at once, otherwise the first path is normalized and probed
OpenFileThen(filePathList) ==
    IF Len(filePathList) = 0
    THEN [probe |-> FALSE, filePath |-> NoPath,
          effects |-> <<CallbackEffect(EmptySelectionError, NoResult)>>]
    ELSE [probe |-> TRUE, filePath |-> normalize(filePathList[1]), effects |-> <<>>]

\* openFile's .catch handler
OpenFileCatch(error) == <<CallbackEffect(error, NoResult)>>

\* os.EOL
EOL == "\n"

\* variant of FileChecked: the error is delivered without waiting for the
\* warning dialog
FileCheckedNoWait(error, filePath) ==
    IF error # Null
    THEN [warn |-> TRUE, message |-> <<"File not found.", EOL>>,
          effects |-> <<CallbackEffect(error, NoResult)>>]
    ELSE [warn |-> FALSE, message |-> Omitted,
          effects |-> <<CallbackEffect(Null, PathResult(filePath))>>]

\* variant of FileChecked: the warning is shown whatever the probe answered
FileCheckedAlwaysWarn(error, filePath) ==
    [warn |-> TRUE, message |-> <<"File not found.", EOL>>, effects |-> <<>>]

\* the callback openFile hands to checkFileExists
FileChecked(error, filePath) ==
    IF error # Null
    THEN [warn |-> TRUE, message |-> <<"File not found.", EOL>>, effects |-> <<>>]
    ELSE [warn |-> FALSE, message |-> Omitted,
          effects |-> <<CallbackEffect(Null, PathResult(filePath))>>]

(***************************************************************************)
(* State                                                                   *)
(***************************************************************************)

VARIABLES
    isMacOS,    \* platformTools.isMacOS
    op,         \* op[c]: the public operation call c invokes ("none" before)
    args,       \* args[c]: the arguments of the call
    pc,         \* pc[c]: what call c is waiting for
    pend,       \* pend[c]: the value a .then handler threw, awaiting .catch
    probeErr,   \* probeErr[c]: the error captured by openFile's warning callback
    msgReq,     \* msgReq[c]: options objects sent to dialog.showMessageBox
    openReq,    \* openReq[c]: options objects sent to dialog.showOpenDialog
    probed,     \* probed[c]: paths handed to fs.access
    hostOut,    \* hostOut[c]: what the host services answered, in order
    dlgLog,     \* dlgLog[c]: invocations of the callback createMessageDialog was given
    cbLog,      \* cbLog[c]: invocations of the caller's callback, in order
    trace,      \* trace[c]: everything call c did or was told, in order
    during      \* during[c]: the calls that were outstanding when c was made

vars == <<isMacOS, op, args, pc, pend, probeErr, msgReq, openReq, probed,
          hostOut, dlgLog, cbLog, trace, during>>

NoArgs == [title |-> Omitted, message |-> Omitted, folder |-> Undefined]

HostAnswer(svc, ok, err, response, paths) ==
    [svc |-> svc, ok |-> ok, err |-> err, response |-> response, paths |-> paths]

Init ==
    /\ isMacOS \in BOOLEAN
    /\ op = [c \in Calls |-> "none"]
    /\ args = [c \in Calls |-> NoArgs]
    /\ pc = [c \in Calls |-> "idle"]
    /\ pend = [c \in Calls |-> Null]
    /\ probeErr = [c \in Calls |-> Null]
    /\ msgReq = [c \in Calls |-> <<>>]
    /\ openReq = [c \in Calls |-> <<>>]
    /\ probed = [c \in Calls |-> <<>>]
    /\ hostOut = [c \in Calls |-> <<>>]
    /\ dlgLog = [c \in Calls |-> <<>>]
    /\ cbLog = [c \in Calls |-> <<>>]
    /\ trace = [c \in Calls |-> <<>>]
    /\ during = [c \in Calls |-> {}]

\* the calls whose host request, probe or promise reaction is pending
Outstanding == { d \in Calls : pc[d] \notin {"idle", "done", "threw"} }

\* the names of a handler's effects
Tags(effects) == [k \in 1..Len(effects) |-> effects[k].ev]

\* the callback invocations among a handler's effects; outcome is what the
\* callback did
Invocations(effects, outcome) ==
    LET cbs == SelectSeq(effects, LAMBDA e : e.ev = "cb")
    IN [k \in 1..Len(cbs) |->
          [err |-> cbs[k].err, res |-> cbs[k].res, threw |-> outcome # NoThrow]]

\* variant of Run: the callback is kept in one module-level binding, so the
\* invocations reach every call that has been made
RunShared(c, before, effects, outcome) ==
    /\ trace' = [trace EXCEPT ![c] = @ \o before \o Tags(effects)]
    /\ cbLog' = [d \in Calls |->
                    IF pc[d] # "idle" THEN cbLog[d] \o Invocations(effects, outcome)
                    ELSE cbLog[d]]

\* a handler runs: `before` names what it was told, then its effects happen
Run(c, before, effects, outcome) ==
    /\ trace' = [trace EXCEPT ![c] = @ \o before \o Tags(effects)]
    /\ cbLog' = [cbLog EXCEPT ![c] = @ \o Invocations(effects, outcome)]

\* createMessageDialog calls the callback it was given with arguments a
RunDialogCallback(c, before, a, outcome) ==
    /\ dlgLog' = [dlgLog EXCEPT ![c] = Append(@, a)]
    /\ Run(c, before, MessageDialogCallback(op[c], a.err, a.res, probeErr[c]), outcome)

(***************************************************************************)
(* The public operations                                                   *)
(***************************************************************************)

\* createMessageDialog up to the request: the options object goes to the host
createMessageDialog(c, prelude, title, message, buttonList, type) ==
    /\ msgReq' = [msgReq EXCEPT ![c] =
                     Append(@, MessageBoxOptions(title, message, buttonList, type))]
    /\ trace' = [trace EXCEPT ![c] = @ \o prelude \o <<"showMessageBox">>]
    /\ pc' = [pc EXCEPT ![c] = "box"]

showInformation(c, title, message) ==
    /\ pc[c] = "idle"
    /\ op' = [op EXCEPT ![c] = "showInformation"]
    /\ args' = [args EXCEPT ![c] = [NoArgs EXCEPT !.title = title, !.message = message]]
    /\ createMessageDialog(c, <<>>, title, message, <<"Dismiss">>, "info")
    /\ during' = [during EXCEPT ![c] = Outstanding]
    /\ UNCHANGED <<isMacOS, pend, probeErr, openReq, probed, hostOut, cbLog, dlgLog>>

showWarning(c, message) ==
    /\ pc[c] = "idle"
    /\ op' = [op EXCEPT ![c] = "showWarning"]
    /\ args' = [args EXCEPT ![c] = [NoArgs EXCEPT !.message = message]]
    /\ createMessageDialog(c, <<>>, <<"Warning">>, message, <<"Dismiss">>, "warning")
    /\ during' = [during EXCEPT ![c] = Outstanding]
    /\ UNCHANGED <<isMacOS, pend, probeErr, openReq, probed, hostOut, cbLog, dlgLog>>

showConfirmation(c, title, message) ==
    /\ pc[c] = "idle"
    /\ op' = [op EXCEPT ![c] = "showConfirmation"]
    /\ args' = [args EXCEPT ![c] = [NoArgs EXCEPT !.title = title, !.message = message]]
    /\ createMessageDialog(c, Tags(ShowConfirmationPrelude), title, message,
                           <<"No", "Yes">>, "question")
    /\ during' = [during EXCEPT ![c] = Outstanding]
    /\ UNCHANGED <<isMacOS, pend, probeErr, openReq, probed, hostOut, cbLog, dlgLog>>

showError(c, message) ==
    /\ pc[c] = "idle"
    /\ op' = [op EXCEPT ![c] = "showError"]
    /\ args' = [args EXCEPT ![c] = [NoArgs EXCEPT !.message = message]]
    /\ createMessageDialog(c, Tags(ShowErrorPrelude(isMacOS)), <<"Error">>, message,
                           <<"Dismiss", "Restart", "Quit">>, "error")
    /\ during' = [during EXCEPT ![c] = Outstanding]
    /\ UNCHANGED <<isMacOS, pend, probeErr, openReq, probed, hostOut, cbLog, dlgLog>>

\* openFile up to the request; an omitted initialFolder is replaced by its
\* default first, and the call ends there when evaluating the default throws
openFile(c, dialogTitle, initialFolder) ==
    /\ pc[c] = "idle"
    /\ op' = [op EXCEPT ![c] = "openFile"]
    /\ args' = [args EXCEPT ![c] =
                   [NoArgs EXCEPT !.title = dialogTitle, !.folder = initialFolder]]
    /\ IF initialFolder = Undefined /\ InitialFolderDefault.throws
       THEN /\ pc' = [pc EXCEPT ![c] = "threw"]
            /\ trace' = [trace EXCEPT ![c] = Append(@, "throw")]
            /\ UNCHANGED openReq
       ELSE /\ pc' = [pc EXCEPT ![c] = "pick"]
            /\ openReq' = [openReq EXCEPT ![c] =
                  Append(@, OpenDialogOptions(dialogTitle, <<>>,
                              IF initialFolder = Undefined
                              THEN InitialFolderDefault.value ELSE initialFolder))]
            /\ trace' = [trace EXCEPT ![c] = Append(@, "showOpenDialog")]
    /\ during' = [during EXCEPT ![c] = Outstanding]
    /\ UNCHANGED <<isMacOS, pend, probeErr, msgReq, probed, hostOut, cbLog, dlgLog>>

(***************************************************************************)
(* The host settles a message box; the promise reactions run               *)
(***************************************************************************)

LastReq(c) == msgReq[c][Len(msgReq[c])]

\* the host resolves with a clicked index; .then runs.  A callback that
\* throws inside .then rejects the chained promise, which .catch handles.
MessageBoxResolved(c, i, outcome) ==
    /\ pc[c] = "box"
    /\ i \in 0..(Len(LastReq(c).buttons) - 1)
    /\ RunDialogCallback(c, <<"box.resolve">>, MessageBoxThen(BoxResult(i)), outcome)
    /\ pc' = [pc EXCEPT ![c] = IF outcome = NoThrow THEN "done" ELSE "catchBox"]
    /\ pend' = [pend EXCEPT ![c] = IF outcome = NoThrow THEN Null ELSE outcome]
    /\ hostOut' = [hostOut EXCEPT ![c] = Append(@, HostAnswer("box", TRUE, Null, i, <<>>))]
    /\ UNCHANGED <<isMacOS, op, args, probeErr, msgReq, openReq, probed, during>>

\* the host rejects; .then is skipped and .catch runs.  A callback that
\* throws inside .catch leaves an unhandled rejection.
MessageBoxRejected(c, error, outcome) ==
    /\ pc[c] = "box"
    /\ RunDialogCallback(c, <<"box.reject">>, MessageBoxCatch(error), outcome)
    /\ pc' = [pc EXCEPT ![c] = "done"]
    /\ hostOut' = [hostOut EXCEPT ![c] =
                      Append(@, HostAnswer("box", FALSE, error, 0 - 1, <<>>))]
    /\ UNCHANGED <<isMacOS, op, args, pend, probeErr, msgReq, openReq, probed, during>>

\* .catch runs on what the .then handler threw
MessageBoxThenThrew(c, outcome) ==
    /\ pc[c] = "catchBox"
    /\ RunDialogCallback(c, <<"catch">>, MessageBoxCatch(pend[c]), outcome)
    /\ pc' = [pc EXCEPT ![c] = "done"]
    /\ pend' = [pend EXCEPT ![c] = Null]
    /\ UNCHANGED <<isMacOS, op, args, probeErr, msgReq, openReq, probed, hostOut, during>>

(***************************************************************************)
(* The host settles the picker; fs.access answers                          *)
(***************************************************************************)

OpenDialogResolved(c, filePathList, outcome) ==
    /\ pc[c] = "pick"
    /\ LET then == OpenFileThen(filePathList)
       IN IF then.probe
          THEN /\ probed' = [probed EXCEPT ![c] = Append(@, then.filePath)]
               /\ Run(c, <<"pick.resolve", "access">>, then.effects, NoThrow)
               /\ pc' = [pc EXCEPT ![c] = "probe"]
               /\ UNCHANGED pend
          ELSE /\ Run(c, <<"pick.resolve">>, then.effects, outcome)
               /\ pc' = [pc EXCEPT ![c] = IF outcome = NoThrow THEN "done" ELSE "catchPick"]
               /\ pend' = [pend EXCEPT ![c] = IF outcome = NoThrow THEN Null ELSE outcome]
               /\ UNCHANGED probed
    /\ hostOut' = [hostOut EXCEPT ![c] =
                      Append(@, HostAnswer("pick", TRUE, Null, 0 - 1, filePathList))]
    /\ UNCHANGED <<isMacOS, op, args, probeErr, msgReq, openReq, dlgLog, during>>

OpenDialogRejected(c, error, outcome) ==
    /\ pc[c] = "pick"
    /\ Run(c, <<"pick.reject">>, OpenFileCatch(error), outcome)
    /\ pc' = [pc EXCEPT ![c] = "done"]
    /\ hostOut' = [hostOut EXCEPT ![c] =
                      Append(@, HostAnswer("pick", FALSE, error, 0 - 1, <<>>))]
    /\ UNCHANGED <<isMacOS, op, args, pend, probeErr, msgReq, openReq, probed, dlgLog, during>>

OpenDialogThenThrew(c, outcome) ==
    /\ pc[c] = "catchPick"
    /\ Run(c, <<"catch">>, OpenFileCatch(pend[c]), outcome)
    /\ pc' = [pc EXCEPT ![c] = "done"]
    /\ pend' = [pend EXCEPT ![c] = Null]
    /\ UNCHANGED <<isMacOS, op, args, probeErr, msgReq, openReq, probed, hostOut, dlgLog, during>>

\* checkFileExists: fs.access calls back with an error or with null, and
\* openFile's callback either delivers the path or shows the warning.  The
\* callback runs outside the promise chain: what it throws is not caught.
checkFileExists(c, error, outcome) ==
    /\ pc[c] = "probe"
    /\ LET checked == FileChecked(error, probed[c][Len(probed[c])])
       IN IF checked.warn
          THEN /\ probeErr' = [probeErr EXCEPT ![c] = error]
               /\ msgReq' = [msgReq EXCEPT ![c] =
                     Append(@, MessageBoxOptions(<<"Warning">>, checked.message,
                                                 <<"Dismiss">>, "warning"))]
               /\ trace' = [trace EXCEPT ![c] =
                     @ \o <<"access.fail">> \o Tags(checked.effects) \o <<"showMessageBox">>]
               /\ cbLog' = [cbLog EXCEPT ![c] = @ \o Invocations(checked.effects, outcome)]
               /\ pc' = [pc EXCEPT ![c] = "box"]
          ELSE /\ Run(c, <<"access.ok">>, checked.effects, outcome)
               /\ pc' = [pc EXCEPT ![c] = "done"]
               /\ UNCHANGED <<probeErr, msgReq>>
    /\ hostOut' = [hostOut EXCEPT ![c] =
                      Append(@, HostAnswer("access", error = Null, error, 0 - 1, <<>>))]
    /\ UNCHANGED <<isMacOS, op, args, pend, openReq, probed, dlgLog, during>>

(***************************************************************************)
(* Specification                                                           *)
(***************************************************************************)

Next ==
    \E c \in Calls :
       \/ \E t \in Titles, m \in Messages : showInformation(c, t, m)
       \/ \E m \in Messages : showWarning(c, m)
       \/ \E t \in Titles, m \in Messages : showConfirmation(c, t, m)
       \/ \E m \in Messages : showError(c, m)
       \/ \E t \in DialogTitles, f \in Folders : openFile(c, t, f)
       \/ \E i \in 0..2, o \in CallbackOutcomes : MessageBoxResolved(c, i, o)
       \/ \E e \in HostErrors, o \in CallbackOutcomes : MessageBoxRejected(c, e, o)
       \/ \E o \in CallbackOutcomes : MessageBoxThenThrew(c, o)
       \/ \E l \in PathLists, o \in CallbackOutcomes : OpenDialogResolved(c, l, o)
       \/ \E e \in HostErrors, o \in CallbackOutcomes : OpenDialogRejected(c, e, o)
       \/ \E o \in CallbackOutcomes : OpenDialogThenThrew(c, o)
       \/ \E e \in {Null} \cup ProbeErrors, o \in CallbackOutcomes : checkFileExists(c, e, o)

Spec == Init /\ [][Next]_vars

(***************************************************************************)
(* Properties                                                              *)
(***************************************************************************)

MessageOps == {"showInformation", "showWarning", "showConfirmation", "showError"}

\* nothing more will happen for call c
Finished(c) == pc[c] \in {"done", "threw"}

\* positions of a tag in a call's trace
Positions(c, tags) == { k \in 1..Len(trace[c]) : trace[c][k] \in tags }

\* the relaunch and quit requests of call c, in order
TerminalActions(c) == SelectSeq(trace[c], LAMBDA t : t \in {"relaunch", "quit"})

\* the host has answered call c's first request, and how
Answered(c) == hostOut[c] # <<>>
Resolved(c) == Answered(c) /\ hostOut[c][1].ok
Rejected(c) == Answered(c) /\ ~hostOut[c][1].ok

\* the existence probe of call c has answered, and how
ProbeAnswered(c) == Len(hostOut[c]) >= 2
ProbeFailed(c) == ProbeAnswered(c) /\ ~hostOut[c][2].ok

\* C1: a call of any of the five operations that has run to its end has
\* invoked the caller's callback exactly once.
C1_CallbackExactlyOnce ==
    \A c \in Calls : Finished(c) => Len(cbLog[c]) = 1

\* C2: in showError, once the host has resolved the dialog with index 1 the
\* terminal requests are relaunch then quit, each once; with index 2 a single
\* quit; with index 0 none.
C2_ShowErrorTerminalActions ==
    \A c \in Calls :
        (op[c] = "showError" /\ Resolved(c)) =>
            TerminalActions(c) =
                (IF hostOut[c][1].response = 1 THEN <<"relaunch", "quit">>
                 ELSE IF hostOut[c][1].response = 2 THEN <<"quit">>
                 ELSE <<>>)

C2_Witness ==
    \E c \in Calls :
        /\ op[c] = "showError" /\ Resolved(c) /\ pc[c] = "done"
        /\ hostOut[c][1].response = 1
        /\ Len(cbLog[c]) = 2
        /\ TerminalActions(c) = <<"relaunch", "quit">>

\* C3: in showError, relaunch and quit are requested only after the host
\* resolved the dialog; when the host rejects it they are never requested and
\* the caller's callback receives the host's error.
C3_TerminalOnlyAfterClick ==
    \A c \in Calls :
        op[c] = "showError" =>
            /\ \A k \in Positions(c, {"relaunch", "quit"}) :
                   /\ Resolved(c)
                   /\ \E j \in Positions(c, {"box.resolve"}) : j < k
            /\ Rejected(c) =>
                   /\ TerminalActions(c) = <<>>
                   /\ Len(cbLog[c]) = 1
                   /\ cbLog[c][1].err = hostOut[c][1].err
                   /\ cbLog[c][1].res = NoResult

C3_Witness ==
    \E c \in Calls :
        /\ op[c] = "showError" /\ Rejected(c) /\ pc[c] = "done"
        /\ cbLog[c][1].err = "EHOSTB"
        /\ TerminalActions(c) = <<>>

\* C4 as stated: in showError, once relaunch and quit have been requested
\* on the Restart path, the caller's callback is not invoked.
C4_NoCallbackAfterRestart ==
    \A c \in Calls :
        (op[c] = "showError" /\ Resolved(c) /\ hostOut[c][1].response = 1) =>
            cbLog[c] = <<>>

\* C4 as amended: in showError, on the Restart path the caller's callback is
\* still invoked, with (null, result) carrying index 1, right after relaunch
\* and quit have been requested.
C4_CallbackAfterRestart ==
    \A c \in Calls :
        (op[c] = "showError" /\ Resolved(c) /\ hostOut[c][1].response = 1) =>
            /\ cbLog[c] # <<>>
            /\ cbLog[c][1].err = Null
            /\ cbLog[c][1].res = BoxResult(1)
            /\ \E k \in Positions(c, {"quit"}) :
                   /\ k > 1 /\ trace[c][k - 1] = "relaunch"
                   /\ k < Len(trace[c]) /\ trace[c][k + 1] = "cb"

C4_Witness ==
    \E c \in Calls :
        /\ op[c] = "showError" /\ Resolved(c) /\ hostOut[c][1].response = 1
        /\ pc[c] = "done"
        /\ cbLog[c] = <<[err |-> Null, res |-> BoxResult(1), threw |-> FALSE]>>

\* C5: in openFile, when the picker resolves with no path, the callback
\* receives the 'file selection empty' error, the existence probe is not
\* called and no warning dialog is requested.
C5_EmptySelection ==
    \A c \in Calls :
        (op[c] = "openFile" /\ Resolved(c) /\ hostOut[c][1].paths = <<>>) =>
            /\ cbLog[c] # <<>>
            /\ cbLog[c][1].err = EmptySelectionError
            /\ cbLog[c][1].res = NoResult
            /\ probed[c] = <<>>
            /\ msgReq[c] = <<>>
            /\ Positions(c, {"access", "showMessageBox"}) = {}

C5_Witness ==
    \E c \in Calls :
        /\ op[c] = "openFile" /\ Resolved(c) /\ hostOut[c][1].paths = <<>>
        /\ pc[c] = "done"
        /\ Len(cbLog[c]) = 1
        /\ cbLog[c][1].err = EmptySelectionError

\* C6: in openFile, when the existence probe fails, one warning dialog titled
\* "Warning" with the single button Dismiss and a message containing
\* "File not found." is requested; the callback is not invoked before the
\* host has answered that dialog, and it is invoked with the probe's error.
C6_WarningBeforeCallback ==
    \A c \in Calls :
        (op[c] = "openFile" /\ ProbeFailed(c)) =>
            /\ Len(msgReq[c]) = 1
            /\ msgReq[c][1].title = <<"Warning">>
            /\ msgReq[c][1].type = "warning"
            /\ msgReq[c][1].buttons = <<"Dismiss">>
            /\ Contains(msgReq[c][1].detail, "File not found.")
            /\ pc[c] = "box" => cbLog[c] = <<>>
            /\ \A k \in Positions(c, {"cb"}) :
                   \E r \in Positions(c, {"showMessageBox"}) :
                       \E j \in Positions(c, {"box.resolve", "box.reject"}) :
                           r < j /\ j < k
            /\ \A k \in 1..Len(cbLog[c]) :
                   /\ cbLog[c][k].err = hostOut[c][2].err
                   /\ cbLog[c][k].res = NoResult
            /\ pc[c] = "done" => cbLog[c] # <<>>

C6_Witness ==
    \E c \in Calls :
        /\ op[c] = "openFile" /\ ProbeFailed(c) /\ pc[c] = "done"
        /\ Len(hostOut[c]) = 3 /\ hostOut[c][3].ok
        /\ cbLog[c] = <<[err |-> "ENOENT", res |-> NoResult, threw |-> FALSE]>>

\* C7: openFile called without an initialFolder issues the host open-file
\* request with a host-defined base path and goes on like a call with an
\* explicit initialFolder.
C7_DefaultInitialFolder ==
    \A c \in Calls :
        (op[c] = "openFile" /\ args[c].folder = Undefined) =>
            /\ pc[c] # "threw"
            /\ Len(openReq[c]) = 1
            /\ openReq[c][1].defaultPath # Undefined

\* C8: in openFile, when the picker resolves with one or more paths, the
\* first path, normalized, is probed exactly once; the callback receives
\* (null, path) exactly when the probe succeeded, and the path delivered is
\* the path probed.
C8_FirstPathNormalizedProbed ==
    \A c \in Calls :
        (op[c] = "openFile" /\ Resolved(c) /\ hostOut[c][1].paths # <<>>) =>
            /\ probed[c] = <<normalize(hostOut[c][1].paths[1])>>
            /\ Cardinality(Positions(c, {"access"})) = 1
            /\ ~ProbeAnswered(c) => cbLog[c] = <<>>
            /\ (ProbeAnswered(c) /\ hostOut[c][2].ok) =>
                   /\ Len(cbLog[c]) = 1
                   /\ cbLog[c][1].err = Null
                   /\ cbLog[c][1].res = PathResult(probed[c][1])
            /\ ProbeFailed(c) =>
                   \A k \in 1..Len(cbLog[c]) :
                       cbLog[c][k].err # Null /\ cbLog[c][k].res = NoResult

C8_Witness ==
    \E c \in Calls :
        /\ op[c] = "openFile" /\ Resolved(c) /\ pc[c] = "done"
        /\ hostOut[c][1].paths = << <<".", "a", "..", "b.txt">>, <<"", "d", "..", "..", "g.txt">> >>
        /\ ProbeAnswered(c) /\ hostOut[c][2].ok
        /\ probed[c] = << <<"b.txt">> >>
        /\ cbLog[c][1].res = PathResult(<<"b.txt">>)

\* C9: showConfirmation requests focus before the message-box request;
\* showError requests the dock bounce (on macOS only) and then focus, both
\* before the message-box request.
C9_FocusBeforeDialog ==
    \A c \in Calls :
        /\ op[c] = "showConfirmation" =>
               SubSeq(trace[c], 1, 2) = <<"focus", "showMessageBox">>
        /\ op[c] = "showError" =>
               IF isMacOS
               THEN SubSeq(trace[c], 1, 3) = <<"bounce", "focus", "showMessageBox">>
               ELSE /\ SubSeq(trace[c], 1, 2) = <<"focus", "showMessageBox">>
                    /\ Positions(c, {"bounce"}) = {}

C9_Witness ==
    /\ isMacOS
    /\ \E c, d \in Calls :
        /\ op[c] = "showError" /\ op[d] = "showConfirmation"
        /\ pc[c] = "box" /\ pc[d] = "box"
        /\ trace[c] = <<"bounce", "focus", "showMessageBox">>

HostReported(c) == { hostOut[c][k].err : k \in { j \in 1..Len(hostOut[c]) : ~hostOut[c][j].ok } }

\* the errors the caller's callback of call c received
Delivered(c) == { cbLog[c][k].err : k \in 1..Len(cbLog[c]) } \ {Null}

\* C11: every error detected during an operation reaches the caller's
\* callback as its first argument; in openFile, the host's rejection of the
\* nested warning dialog is not dropped.
C11_NoErrorSwallowed ==
    \A c \in Calls : pc[c] = "done" => HostReported(c) \subseteq Delivered(c)

\* C12: the request of each message-dialog operation carries the operation's
\* buttons and kind (and the fixed title of showWarning and showError), with
\* defaultId and cancelId 0; the index delivered to the callback is the index
\* the host reported, within the button list sent.
C12_FixedButtonsIndexUnchanged ==
    \A c \in Calls :
        (op[c] \in MessageOps) =>
            /\ Len(msgReq[c]) = 1
            /\ msgReq[c][1].defaultId = 0 /\ msgReq[c][1].cancelId = 0
            /\ op[c] = "showInformation" =>
                   /\ msgReq[c][1].buttons = <<"Dismiss">>
                   /\ msgReq[c][1].type = "info"
            /\ op[c] = "showWarning" =>
                   /\ msgReq[c][1].buttons = <<"Dismiss">>
                   /\ msgReq[c][1].type = "warning"
                   /\ msgReq[c][1].title = <<"Warning">>
            /\ op[c] = "showConfirmation" =>
                   /\ msgReq[c][1].buttons = <<"No", "Yes">>
                   /\ msgReq[c][1].type = "question"
            /\ op[c] = "showError" =>
                   /\ msgReq[c][1].buttons = <<"Dismiss", "Restart", "Quit">>
                   /\ msgReq[c][1].type = "error"
                   /\ msgReq[c][1].title = <<"Error">>
            /\ Resolved(c) =>
                   /\ cbLog[c] # <<>>
                   /\ cbLog[c][1].err = Null
                   /\ cbLog[c][1].res = BoxResult(hostOut[c][1].response)
                   /\ cbLog[c][1].res.response \in 0..(Len(msgReq[c][1].buttons) - 1)

C12_Witness ==
    \E c, d \in Calls :
        /\ op[c] = "showError" /\ Resolved(c) /\ pc[c] = "done"
        /\ cbLog[c] = <<[err |-> Null, res |-> BoxResult(2), threw |-> FALSE]>>
        /\ op[d] = "showConfirmation" /\ Resolved(d)
        /\ cbLog[d][1].res = BoxResult(1)

\* call c's own answers: the index, the path and the errors a callback
\* invocation of c may carry
OwnResults(c) ==
    { BoxResult(hostOut[c][k].response) :
          k \in { j \in 1..Len(hostOut[c]) : hostOut[c][j].svc = "box" /\ hostOut[c][j].ok } }
    \cup { PathResult(probed[c][k]) : k \in 1..Len(probed[c]) }
OwnErrors(c) ==
    HostReported(c)
    \cup (IF Resolved(c) /\ hostOut[c][1].svc = "pick" /\ hostOut[c][1].paths = <<>>
          THEN {EmptySelectionError} ELSE {})
    \cup { cbLog[c][k].err : k \in { j \in 2..Len(cbLog[c]) : cbLog[c][j - 1].threw } }

\* C13: calls outstanding at the same time are independent: each call that
\* reached the host sent its own request, built from its own arguments, and
\* every invocation of its callback carries a result or an error of its own
\* request, whatever the order in which the host answers.
C13_CallsIndependent ==
    \A c \in Calls :
        /\ (pc[c] \notin {"idle", "threw"}) =>
               Len(msgReq[c]) + Len(openReq[c]) >= 1
        /\ (op[c] \in MessageOps) =>
               /\ Len(msgReq[c]) = 1
               /\ (op[c] \in {"showInformation", "showConfirmation"}) =>
                      msgReq[c][1].title =
                          (IF args[c].title = Omitted THEN appProductName ELSE args[c].title)
               /\ msgReq[c][1].detail =
                      (IF args[c].message = Omitted
                       THEN msgReq[c][1].title ELSE args[c].message)
        /\ (op[c] = "openFile" /\ openReq[c] # <<>>) =>
               openReq[c][1].defaultPath = args[c].folder
        /\ ~Answered(c) => cbLog[c] = <<>>
        /\ \A k \in 1..Len(cbLog[c]) :
               IF cbLog[c][k].err = Null
               THEN cbLog[c][k].res \in OwnResults(c)
               ELSE cbLog[c][k].err \in OwnErrors(c) /\ cbLog[c][k].res = NoResult

\* two identical showConfirmation calls were outstanding together and were
\* answered differently; each callback got its own answer
C13_Witness ==
    \E c, d \in Calls :
        /\ c # d /\ c \in during[d]
        /\ op[c] = "showConfirmation" /\ op[d] = "showConfirmation"
        /\ args[c] = args[d]
        /\ Len(msgReq[c]) = 1 /\ msgReq[c] = msgReq[d]
        /\ pc[c] = "done" /\ pc[d] = "done"
        /\ cbLog[c] = <<[err |-> Null, res |-> BoxResult(1), threw |-> FALSE]>>
        /\ cbLog[d] = <<[err |-> "EHOSTA", res |-> NoResult, threw |-> FALSE]>>

\* C14: when the host resolves a request, the callback is invoked on the
\* success path only: the rejection handler chained after it does not invoke
\* the callback a second time, also when the callback threw on the success
\* path (in openFile, for the 'file selection empty' delivery).
C14_DeliveriesExclusive ==
    \A c \in Calls :
        /\ (op[c] \in MessageOps /\ Resolved(c)) =>
               /\ Len(cbLog[c]) <= 1
               /\ Len(dlgLog[c]) <= 1
        /\ (op[c] = "openFile" /\ Resolved(c) /\ hostOut[c][1].paths = <<>>) =>
               Len(cbLog[c]) <= 1
        /\ (op[c] = "openFile" /\ Len(hostOut[c]) = 3 /\ hostOut[c][3].ok) =>
               Len(dlgLog[c]) <= 1

\* the requests openFile call c sent to the host, in order
HostInteractions(c) ==
    SelectSeq(trace[c], LAMBDA t : t \in {"showOpenDialog", "access", "showMessageBox"})

\* C15: in openFile the picker request, the existence probe and the warning
\* dialog happen in that order, each at most once: the probe only after the
\* picker resolved with a path, the warning only after the probe failed, and
\* no warning when the picker rejected, returned no path or the probe succeeded.
C15_OpenFileOrder ==
    \A c \in Calls :
        op[c] = "openFile" =>
            /\ HostInteractions(c) \in
                   { <<>>, <<"showOpenDialog">>, <<"showOpenDialog", "access">>,
                     <<"showOpenDialog", "access", "showMessageBox">> }
            /\ Len(openReq[c]) <= 1 /\ Len(probed[c]) <= 1 /\ Len(msgReq[c]) <= 1
            /\ probed[c] # <<>> =>
                   /\ Resolved(c) /\ hostOut[c][1].paths # <<>>
                   /\ \E j \in Positions(c, {"pick.resolve"}) :
                          \A k \in Positions(c, {"access"}) : j < k
            /\ msgReq[c] # <<>> =>
                   /\ ProbeFailed(c)
                   /\ \E j \in Positions(c, {"access.fail"}) :
                          \A k \in Positions(c, {"showMessageBox"}) : j < k
            /\ (Rejected(c)
                \/ (Resolved(c) /\ hostOut[c][1].paths = <<>>)
                \/ (ProbeAnswered(c) /\ hostOut[c][2].ok)) =>
                   msgReq[c] = <<>>
            /\ (Resolved(c) /\ hostOut[c][1].paths # <<>>) => Len(probed[c]) = 1
            /\ ProbeFailed(c) => Len(msgReq[c]) = 1

C15_Witness ==
    \E c, d \in Calls :
        /\ op[c] = "openFile" /\ pc[c] = "done"
        /\ HostInteractions(c) = <<"showOpenDialog", "access", "showMessageBox">>
        /\ op[d] = "openFile" /\ pc[d] = "done"
        /\ ProbeAnswered(d) /\ hostOut[d][2].ok
        /\ HostInteractions(d) = <<"showOpenDialog", "access">>

====
